---- MODULE Spec2Model ----
(***************************************************************************)
(* Model of business_validator.py: the search augmentation shim            *)
(* (WebSearchAgent), the transcript-to-report extractor                    *)
(* (BusinessValidatorAgent._generate_final_report) and the top-level       *)
(* script (main).                                                          *)
(*                                                                         *)
(* Text is a sequence of one-character strings, so that Python's           *)
(* substring test, str.find and slicing are modelled character by          *)
(* character.  Python indices are 0-based and are kept 0-based in the      *)
(* Py* operators.                                                          *)
(***************************************************************************)
EXTENDS Integers, Sequences, FiniteSets, TLC

VARIABLES
    pc,          \* position of the running script
    idea,        \* business_idea as typed by the user
    transcript,  \* groupchat.messages: sequence of [role, content]
    report,      \* value returned by _generate_final_report (NoReport before)
    out,         \* what has been printed, as a sequence of tags
    exitStatus,  \* -1 while running, then the process exit status
    saved,       \* TRUE once save_report has written the file
    provider,    \* "down": the search provider raises on every call
    replyCalls,  \* number of WebSearchAgent.generate_reply calls so far
    parentCalls, \* number of super().generate_reply calls so far
    lastCall,    \* record of the most recent WebSearchAgent.generate_reply
    failedAt     \* the step of main that raised, "none" while none has

vars == <<pc, idea, transcript, report, out, exitStatus, saved, provider,
          replyCalls, parentCalls, lastCall, failedAt>>

----------------------------------------------------------------------------
(* Bounds of the model *)

MaxMsgs == 2

MaxChatMsgs == 1

MaxReplies == 2

----------------------------------------------------------------------------
(* String literals of the program *)

MARKET_RESEARCHER ==
    <<"#", "#", "#", " ", "M", "A", "R", "K", "E", "T", " ", "R", "E", "S", "E", "A", "R", "C", "H", "E", "R">>

MARKET_SIZE ==
    <<"M", "A", "R", "K", "E", "T", " ", "S", "I", "Z", "E", ":">>

COMPETITOR_SCOUT ==
    <<"#", "#", "#", " ", "C", "O", "M", "P", "E", "T", "I", "T", "O", "R", " ", "S", "C", "O", "U", "T">>

DIRECT_COMPETITORS ==
    <<"D", "I", "R", "E", "C", "T", " ", "C", "O", "M", "P", "E", "T", "I", "T", "O", "R", "S", ":">>

CLARIFIED_IDEA ==
    <<"C", "L", "A", "R", "I", "F", "I", "E", "D", " ", "I", "D", "E", "A", ":">>

BUSINESS_MODEL ==
    <<"B", "U", "S", "I", "N", "E", "S", "S", " ", "M", "O", "D", "E", "L", ":">>

SWOT_ANALYSIS ==
    <<"#", "#", "#", " ", "S", "W", "O", "T", " ", "A", "N", "A", "L", "Y", "S", "I", "S">>

STRENGTHS ==
    <<"S", "T", "R", "E", "N", "G", "T", "H", "S", ":">>

STRATEGIC_FEEDBACK ==
    <<"S", "T", "R", "A", "T", "E", "G", "I", "C", " ", "F", "E", "E", "D", "B", "A", "C", "K", ":">>

TERMINATE ==
    <<"T", "E", "R", "M", "I", "N", "A", "T", "E">>

NoMarketResearcher ==
    <<"(", "N", "o", " ", "M", "a", "r", "k", "e", "t", "R", "e", "s", "e", "a", "r", "c", "h", "e", "r", " ", "o", "u", "t", "p", "u", "t", " ", "f", "o", "u", "n", "d", ".", ")">>

NoCompetitorScout ==
    <<"(", "N", "o", " ", "C", "o", "m", "p", "e", "t", "i", "t", "o", "r", "S", "c", "o", "u", "t", " ", "o", "u", "t", "p", "u", "t", " ", "f", "o", "u", "n", "d", ".", ")">>

WEB_SEARCH_BANNER ==
    <<"\n", "\n", "W", "E", "B", " ", "S", "E", "A", "R", "C", "H", " ", "R", "E", "S", "U", "L", "T", "S", ":", "\n">>

----------------------------------------------------------------------------
(* Python string primitives, 0-based *)

\* s[a:b] for 0 <= a; b is clamped to len(s) as Python does
PySlice(s, a, b) ==
    SubSeq(s, a + 1, IF b > Len(s) THEN Len(s) ELSE b)

\* p in s
PyIn(p, s) ==
    \E i \in 0..(Len(s) - Len(p)) : PySlice(s, i, i + Len(p)) = p

\* s.find(p, start): lowest index >= start where p occurs, else -1
PyFind(s, p, start) ==
    LET hits == {i \in start..(Len(s) - Len(p)) : PySlice(s, i, i + Len(p)) = p}
    IN  IF hits = {} THEN -1
        ELSE CHOOSE i \in hits : \A j \in hits : i <= j

\* Python's None / a str, as returned by find_agent_response
None == [some |-> FALSE, text |-> <<>>]

Some(t) == [some |-> TRUE, text |-> t]

\* truthiness of "None or str"
Truthy(v) == v.some /\ v.text # <<>>

\* a or b
PyOr(a, b) == IF Truthy(a) THEN a ELSE b

\* pattern_end=None
NoPattern == <<>>

----------------------------------------------------------------------------
(* Report extractor: _generate_final_report and its find_agent_response *)

\* variant: the role of the message is not looked at
Matches_AnyRole(m, pattern_start) ==
    PyIn(pattern_start, m.content)

\* the test that selects a message (the two nested ifs of the loop)
Matches(m, pattern_start) ==
    m.role = "assistant" /\ PyIn(pattern_start, m.content)

\* variant: the slice stops where the end marker begins
ExtractFrom_EndExcluded(content, pattern_start, pattern_end) ==
    IF pattern_end # NoPattern
    THEN LET start_idx == PyFind(content, pattern_start, 0)
             end_idx   == PyFind(content, pattern_end, start_idx)
         IN  IF end_idx # -1
             THEN Some(PySlice(content, start_idx, end_idx))
             ELSE Some(content)
    ELSE Some(content)

\* variant: without the end marker the slice still starts at the start marker
ExtractFrom_Remainder(content, pattern_start, pattern_end) ==
    IF pattern_end # NoPattern
    THEN LET start_idx == PyFind(content, pattern_start, 0)
             end_idx   == PyFind(content, pattern_end, start_idx)
         IN  IF end_idx # -1
             THEN Some(PySlice(content, start_idx, end_idx + Len(pattern_end)))
             ELSE Some(PySlice(content, start_idx, Len(content)))
    ELSE Some(content)

\* what is returned for the selected message's content
ExtractFrom(content, pattern_start, pattern_end) ==
    IF pattern_end # NoPattern
    THEN LET start_idx == PyFind(content, pattern_start, 0)
             end_idx   == PyFind(content, pattern_end, start_idx)
         IN  IF end_idx # -1
             THEN Some(PySlice(content, start_idx, end_idx + Len(pattern_end)))
             ELSE Some(content)
    ELSE Some(content)

\* the loop "for m in reversed(messages)", from message i down to message 1
RECURSIVE ScanReversed(_, _, _, _)
ScanReversed(messages, i, pattern_start, pattern_end) ==
    IF i = 0 THEN None
    ELSE IF Matches(messages[i], pattern_start)
         THEN ExtractFrom(messages[i].content, pattern_start, pattern_end)
         ELSE ScanReversed(messages, i - 1, pattern_start, pattern_end)

find_agent_response(messages, pattern_start, pattern_end) ==
    ScanReversed(messages, Len(messages), pattern_start, pattern_end)

\* variant: the looser label is tried first
market_research_FallbackFirst(messages) ==
    PyOr(find_agent_response(messages, MARKET_SIZE, NoPattern),
         find_agent_response(messages, MARKET_RESEARCHER, NoPattern))

market_research(messages) ==
    PyOr(find_agent_response(messages, MARKET_RESEARCHER, NoPattern),
         find_agent_response(messages, MARKET_SIZE, NoPattern))

competitor_analysis(messages) ==
    PyOr(find_agent_response(messages, COMPETITOR_SCOUT, NoPattern),
         find_agent_response(messages, DIRECT_COMPETITORS, NoPattern))

clarified(messages) ==
    find_agent_response(messages, CLARIFIED_IDEA, BUSINESS_MODEL)

\* variant: only the header is looked for
swot_NoFallback(messages) ==
    find_agent_response(messages, SWOT_ANALYSIS, NoPattern)

swot(messages) ==
    PyOr(find_agent_response(messages, SWOT_ANALYSIS, NoPattern),
         find_agent_response(messages, STRENGTHS, NoPattern))

feedback(messages) ==
    find_agent_response(messages, STRATEGIC_FEEDBACK, TERMINATE)

\* One "\n<head>\n<body>\n" block appended to the report
Block(head, body) == [head |-> head, body |-> body]

\* report += block when the section was found, else the else-branch (if any)
SectionOrElse(v, head, otherwise) ==
    IF Truthy(v) THEN <<Block(head, v.text)>> ELSE otherwise

\* The report is the concatenation of its blocks, in this order; the opening
\* block carries the business idea (the date is left out), the closing block
\* is the static recommendations and footer.
generate_final_report(business_idea, messages) ==
    <<Block("# Business Validation Report", business_idea)>>
    \o SectionOrElse(market_research(messages), "### Market Research",
                     <<Block("### Market Research", NoMarketResearcher)>>)
    \o SectionOrElse(competitor_analysis(messages), "### Competitive Analysis",
                     <<Block("### Competitive Analysis", NoCompetitorScout)>>)
    \o SectionOrElse(clarified(messages), "### Clarified Business Idea", <<>>)
    \o SectionOrElse(swot(messages), "### SWOT Analysis", <<>>)
    \o SectionOrElse(feedback(messages), "### Strategic Feedback", <<>>)
    \o <<Block("## Recommendations", <<>>)>>

NoReport == <<>>

----------------------------------------------------------------------------
(* Inputs: message texts *)

Roles == {"assistant", "user"}

A == <<"a">>

B == <<"b", " ">>

\* Message contents for the extractor: every marker alone or with text
\* around it, start/end pairs in both orders, a repeated end marker, a
\* truncated marker, and text without any marker.
Texts ==
    { A,
      A \o MARKET_RESEARCHER \o B,
      MARKET_SIZE \o B,
      A \o SubSeq(MARKET_SIZE, 1, 11),
      COMPETITOR_SCOUT \o A,
      B \o DIRECT_COMPETITORS \o A,
      SWOT_ANALYSIS \o SubSeq(STRENGTHS, 2, 10),
      A \o STRENGTHS \o B,
      A \o CLARIFIED_IDEA \o B \o BUSINESS_MODEL \o A \o BUSINESS_MODEL \o B,
      CLARIFIED_IDEA \o BUSINESS_MODEL,
      B \o CLARIFIED_IDEA \o A,
      BUSINESS_MODEL \o A \o CLARIFIED_IDEA \o B,
      A \o STRATEGIC_FEEDBACK \o B \o TERMINATE \o A,
      A \o STRATEGIC_FEEDBACK \o B,
      STRATEGIC_FEEDBACK \o SubSeq(TERMINATE, 1, 8),
      TERMINATE \o B \o STRATEGIC_FEEDBACK \o A }

Ideas == { <<" ", " ">>, <<" ", "g", "y", "m", " ">>, <<>> }


----------------------------------------------------------------------------
(* Search augmentation shim: WebSearchAgent *)

\* max_results=5 asked of the provider
MaxResults == 5

\* search_results[:3]
SnippetLimit == 3

NL == <<"\n">>

\* What one call of the search provider does: it raises, or it returns the
\* bodies of its results.
ProviderRaises == [raises |-> TRUE, bodies |-> <<>>]

ProviderReturns(bodies) == [raises |-> FALSE, bodies |-> bodies]

\* variant: no try/except around the provider call
web_search_NoCatch(outcome) ==
    IF outcome.raises
    THEN [raised |-> TRUE, value |-> <<>>]
    ELSE [raised |-> FALSE, value |-> outcome.bodies]

\* web_search: the result bodies, or [] when anything raised
web_search(outcome) ==
    IF outcome.raises
    THEN [raised |-> FALSE, value |-> <<>>]
    ELSE [raised |-> FALSE, value |-> outcome.bodies]

\* "\n".join(lines)
RECURSIVE JoinLines(_)
JoinLines(lines) ==
    IF lines = <<>> THEN <<>>
    ELSE IF Len(lines) = 1 THEN lines[1]
    ELSE lines[1] \o NL \o JoinLines(Tail(lines))

\* variant: every snippet is joined
search_context_All(search_results) ==
    WEB_SEARCH_BANNER \o JoinLines(search_results)

search_context(search_results) ==
    WEB_SEARCH_BANNER \o JoinLines(PySlice(search_results, 0, SnippetLimit))

\* variant: the message content is replaced by the search context
AugmentedContent_Replace(last_message, search_results) ==
    search_context(search_results)

\* the new messages[-1]["content"]
AugmentedContent(last_message, search_results) ==
    last_message \o search_context(search_results)

\* the agents that do research
IsResearcher(name) == name \in {"MarketResearcher", "CompetitorScout"}

\* messages=None
NoMessages == [given |-> FALSE, list |-> <<>>]

Messages(list) == [given |-> TRUE, list |-> list]

\* The body of generate_reply up to the call of the parent: the message list
\* as it is when the parent is called (the last message is changed in
\* place), the search results, and whether an exception left web_search.
Augment(name, messages, outcome) ==
    IF messages.given /\ Len(messages.list) > 0
    THEN LET n == Len(messages.list)
             last_message == messages.list[n].content
             found == IF IsResearcher(name)
                      THEN web_search(outcome)
                      ELSE [raised |-> FALSE, value |-> <<>>]
         IN  IF found.raised
             THEN [raised |-> TRUE, list |-> messages.list, results |-> <<>>]
             ELSE IF found.value # <<>>
             THEN [raised |-> FALSE,
                   list |-> [messages.list EXCEPT
                                ![n].content = AugmentedContent(last_message, found.value)],
                   results |-> found.value]
             ELSE [raised |-> FALSE, list |-> messages.list, results |-> <<>>]
    ELSE [raised |-> FALSE, list |-> messages.list, results |-> <<>>]

NoCall ==
    [made |-> FALSE, name |-> "", given |-> FALSE, before |-> <<>>,
     after |-> <<>>, results |-> <<>>, searchRaised |-> FALSE,
     parentCalled |-> 0, parentSaw |-> <<>>]

----------------------------------------------------------------------------
(* Inputs of the whole program *)

\* names a WebSearchAgent is constructed with: the two research agents, and
\* any other name
AgentNames == {"MarketResearcher", "CompetitorScout", "Analyst"}

\* the provider's results, best first; a call returns the first n of them
Ranking ==
    << <<"r", "1">>, <<"r", "2">>, <<"r", "3">>, <<"r", "4">>, <<"r", "5">> >>

ProviderOutcomes ==
    {ProviderRaises} \cup {ProviderReturns(SubSeq(Ranking, 1, n)) : n \in 0..MaxResults}

\* what the agents say during the conversation
ChatTexts ==
    { A \o MARKET_SIZE \o B,
      STRATEGIC_FEEDBACK \o B \o TERMINATE }

----------------------------------------------------------------------------
(* The script: main, validate_business_idea, save_report *)

Whitespace == {" ", "\n", "\t"}

\* str.strip()
RECURSIVE Strip(_)
Strip(s) ==
    IF s = <<>> THEN s
    ELSE IF s[1] \in Whitespace THEN Strip(Tail(s))
    ELSE IF s[Len(s)] \in Whitespace THEN Strip(SubSeq(s, 1, Len(s) - 1))
    ELSE s

\* the message initiate_chat opens the conversation with (template shortened)
initial_message(business_idea) ==
    [role |-> "user",
     content |-> <<"v", "a", "l", "i", "d", "a", "t", "e", ":", " ">> \o business_idea]

\* variant: save_report is called after the try statement
InTry_SaveOutside(step) == step \in {"create", "chat", "extract"}

\* the steps that run inside main's try block
InTry(step) == step \in {"create", "chat", "extract", "save"}

\* An exception raised by a step after it printed `printed`: main's handler prints the error and main
\* returns; an exception outside the try block ends the process with a
\* traceback and a non-zero status.
Raise(step, printed) ==
    /\ failedAt' = step
    /\ pc' = "done"
    /\ IF InTry(step)
       THEN out' = out \o printed \o <<"error">> /\ exitStatus' = 0
       ELSE out' = out \o printed \o <<"traceback">> /\ exitStatus' = 1

Init ==
    /\ pc = "input"
    /\ idea = <<>>
    /\ transcript = <<>>
    /\ report = NoReport
    /\ out = <<>>
    /\ exitStatus = -1
    /\ saved = FALSE
    /\ provider \in {"up", "down"}
    /\ replyCalls = 0
    /\ parentCalls = 0
    /\ lastCall = NoCall
    /\ failedAt = "none"

\* main up to the try statement: banner, input(), the blank check, the
\* construction of the validator
MainInput(text) ==
    /\ pc = "input"
    /\ idea' = text
    /\ IF Strip(text) = <<>>
       THEN /\ out' = out \o <<"banner", "need-idea">>
            /\ exitStatus' = 0
            /\ pc' = "done"
       ELSE /\ out' = out \o <<"banner">>
            /\ exitStatus' = exitStatus
            /\ pc' = "validate"
    /\ UNCHANGED <<transcript, report, saved, provider, replyCalls,
                   parentCalls, lastCall, failedAt>>

\* validate_business_idea up to the start of the conversation: the agents
\* and the user proxy are created, the group chat starts with the initial
\* message
ValidateStart(fails) ==
    /\ pc = "validate"
    /\ IF fails
       THEN /\ Raise("create", <<"starting">>)
            /\ UNCHANGED transcript
       ELSE /\ out' = out \o <<"starting">>
            /\ transcript' = <<initial_message(idea)>>
            /\ pc' = "chat"
            /\ UNCHANGED <<exitStatus, failedAt>>
    /\ UNCHANGED <<idea, report, saved, provider, replyCalls, parentCalls,
                   lastCall>>

\* the conversation engine appends the next message to the transcript
EngineAppend(role, content) ==
    /\ pc = "chat"
    /\ Len(transcript) <= MaxChatMsgs
    /\ transcript' = Append(transcript, [role |-> role, content |-> content])
    /\ UNCHANGED <<pc, idea, report, out, exitStatus, saved, provider,
                   replyCalls, parentCalls, lastCall, failedAt>>

\* WebSearchAgent.generate_reply, called with the transcript as messages or
\* with messages=None; the parent's reply generation may raise
GenerateReply(name, given, outcome, parentRaises) ==
    /\ pc = "chat"
    /\ replyCalls < MaxReplies
    /\ provider = "down" => outcome.raises
    /\ LET r == Augment(name, IF given THEN Messages(transcript) ELSE NoMessages,
                        outcome)
       IN  /\ transcript' = IF given THEN r.list ELSE transcript
           /\ replyCalls' = replyCalls + 1
           /\ parentCalls' = IF r.raised THEN parentCalls ELSE parentCalls + 1
           /\ lastCall' = [made |-> TRUE, name |-> name, given |-> given,
                           before |-> transcript,
                           after |-> IF given THEN r.list ELSE transcript,
                           results |-> r.results,
                           searchRaised |-> r.raised,
                           parentCalled |-> IF r.raised THEN 0 ELSE 1,
                           parentSaw |-> IF r.raised THEN <<>> ELSE r.list]
           /\ IF r.raised \/ parentRaises
              THEN Raise("chat", <<>>)
              ELSE UNCHANGED <<pc, out, exitStatus, failedAt>>
    /\ UNCHANGED <<idea, report, saved, provider>>

\* initiate_chat returns: the conversation is over
ChatEnd ==
    /\ pc = "chat"
    /\ pc' = "extract"
    /\ UNCHANGED <<idea, transcript, report, out, exitStatus, saved, provider,
                   replyCalls, parentCalls, lastCall, failedAt>>

\* final_report = self._generate_final_report(business_idea, groupchat.messages)
Extract(fails) ==
    /\ pc = "extract"
    /\ IF fails
       THEN Raise("extract", <<>>) /\ UNCHANGED report
       ELSE /\ report' = generate_final_report(idea, transcript)
            /\ pc' = "save"
            /\ UNCHANGED <<out, exitStatus, failedAt>>
    /\ UNCHANGED <<idea, transcript, saved, provider, replyCalls, parentCalls,
                   lastCall>>

\* save_report and the completion message of main
Save(fails) ==
    /\ pc = "save"
    /\ IF fails
       THEN Raise("save", <<>>) /\ UNCHANGED saved
       ELSE /\ saved' = TRUE
            /\ out' = out \o <<"report-saved", "completed">>
            /\ exitStatus' = 0
            /\ pc' = "done"
            /\ UNCHANGED failedAt
    /\ UNCHANGED <<idea, transcript, report, provider, replyCalls,
                   parentCalls, lastCall>>

Next ==
    \/ \E text \in Ideas : MainInput(text)
    \/ \E fails \in BOOLEAN : ValidateStart(fails)
    \/ \E role \in Roles, content \in ChatTexts : EngineAppend(role, content)
    \/ \E name \in AgentNames, given \in BOOLEAN,
          outcome \in ProviderOutcomes, parentRaises \in BOOLEAN :
            GenerateReply(name, given, outcome, parentRaises)
    \/ ChatEnd
    \/ \E fails \in BOOLEAN : Extract(fails)
    \/ \E fails \in BOOLEAN : Save(fails)

Spec == Init /\ [][Next]_vars

----------------------------------------------------------------------------
(* Specification of the extractor alone: _generate_final_report applied to  *)
(* every transcript of at most MaxMsgs messages.                            *)

InitExtract ==
    /\ pc = "xbuild"
    /\ idea = <<" ", "g", "y", "m", " ">>
    /\ transcript = <<>>
    /\ report = NoReport
    /\ out = <<>>
    /\ exitStatus = -1
    /\ saved = FALSE
    /\ provider = "up"
    /\ replyCalls = 0
    /\ parentCalls = 0
    /\ lastCall = NoCall
    /\ failedAt = "none"

\* the caller builds the list of messages it will pass
XAppend(role, content) ==
    /\ pc = "xbuild"
    /\ Len(transcript) < MaxMsgs
    /\ transcript' = Append(transcript, [role |-> role, content |-> content])
    /\ UNCHANGED <<pc, idea, report, out, exitStatus, saved, provider,
                   replyCalls, parentCalls, lastCall, failedAt>>

\* _generate_final_report(business_idea, messages)
XReport ==
    /\ pc = "xbuild"
    /\ report' = generate_final_report(idea, transcript)
    /\ pc' = "xdone"
    /\ UNCHANGED <<idea, transcript, out, exitStatus, saved, provider,
                   replyCalls, parentCalls, lastCall, failedAt>>

NextExtract ==
    \/ \E role \in Roles, content \in Texts : XAppend(role, content)
    \/ XReport

SpecExtract == InitExtract /\ [][NextExtract]_vars

----------------------------------------------------------------------------
(* Vocabulary of the properties, stated independently of the Py* operators: *)
(* positions are 1-based positions of the sequence.                         *)

\* pattern p occurs in s at position i
Occurs(p, s, i) ==
    /\ i \in 1..(Len(s) - Len(p) + 1)
    /\ \A k \in 1..Len(p) : s[i + k - 1] = p[k]

Contains(p, s) == \E i \in 1..Len(s) : Occurs(p, s, i)

\* position of the first occurrence of p in s at or after position from
FirstOcc(p, s, from) ==
    CHOOSE i \in from..Len(s) :
        Occurs(p, s, i) /\ \A j \in from..(i - 1) : ~Occurs(p, s, j)

OccursFrom(p, s, from) == \E i \in from..Len(s) : Occurs(p, s, i)

\* indices of the assistant-role messages whose content contains p
AssistantWith(p) ==
    {i \in DOMAIN transcript :
        transcript[i].role = "assistant" /\ Contains(p, transcript[i].content)}

MostRecent(S) == CHOOSE i \in S : \A j \in S : j <= i

\* content of the most recent assistant-role message containing p
Selected(p) == transcript[MostRecent(AssistantWith(p))].content

HasSection(head) == \E k \in DOMAIN report : report[k].head = head

SectionBody(head) == report[CHOOSE k \in DOMAIN report : report[k].head = head].body

Reported == pc = "xdone"

\* a "(No ... output found.)" line
IsPlaceholder(body) ==
    /\ Len(body) >= 19
    /\ SubSeq(body, 1, 4) = <<"(", "N", "o", " ">>
    /\ SubSeq(body, Len(body) - 14, Len(body))
         = <<" ", "o", "u", "t", "p", "u", "t", " ", "f", "o", "u", "n", "d", ".", ")">>

\* the five report sections with their start markers
ReportSections ==
    { [head |-> "### Market Research", starts |-> {MARKET_RESEARCHER, MARKET_SIZE}],
      [head |-> "### Competitive Analysis", starts |-> {COMPETITOR_SCOUT, DIRECT_COMPETITORS}],
      [head |-> "### Clarified Business Idea", starts |-> {CLARIFIED_IDEA}],
      [head |-> "### SWOT Analysis", starts |-> {SWOT_ANALYSIS, STRENGTHS}],
      [head |-> "### Strategic Feedback", starts |-> {STRATEGIC_FEEDBACK}] }

\* the sections with a primary and a fallback marker
PairedSections ==
    { [head |-> "### Market Research", primary |-> MARKET_RESEARCHER, fallback |-> MARKET_SIZE],
      [head |-> "### Competitive Analysis", primary |-> COMPETITOR_SCOUT, fallback |-> DIRECT_COMPETITORS],
      [head |-> "### SWOT Analysis", primary |-> SWOT_ANALYSIS, fallback |-> STRENGTHS] }

MarkersAbsent(sec) == \A p \in sec.starts : AssistantWith(p) = {}

----------------------------------------------------------------------------
(* C1 *)

\* C1 (as claimed): for each of the five sections, when no assistant-role
\* message contains any of the section's start markers, the report has been
\* produced and holds, under that section's heading, a "(No ... output
\* found.)" placeholder line.
C1_PlaceholderForEverySection ==
    Reported =>
        \A sec \in ReportSections :
            MarkersAbsent(sec) =>
                /\ report # NoReport
                /\ HasSection(sec.head)
                /\ IsPlaceholder(SectionBody(sec.head))

----------------------------------------------------------------------------
(* C2 *)

C2_Case ==
    /\ AssistantWith(CLARIFIED_IDEA) # {}
    /\ OccursFrom(BUSINESS_MODEL, Selected(CLARIFIED_IDEA),
                  FirstOcc(CLARIFIED_IDEA, Selected(CLARIFIED_IDEA), 1))

\* C2: when the most recent assistant-role message containing
\* "CLARIFIED IDEA:" also contains "BUSINESS MODEL:" after the first
\* "CLARIFIED IDEA:", the clarified-idea section of the report is exactly the
\* part of that message from the first "CLARIFIED IDEA:" through the end of
\* the first "BUSINESS MODEL:" after it.
C2_ClarifiedIsBoundedSubstring ==
    (Reported /\ C2_Case) =>
        LET c == Selected(CLARIFIED_IDEA)
            s == FirstOcc(CLARIFIED_IDEA, c, 1)
            e == FirstOcc(BUSINESS_MODEL, c, s)
        IN  /\ HasSection("### Clarified Business Idea")
            /\ SectionBody("### Clarified Business Idea")
                 = SubSeq(c, s, e + Len(BUSINESS_MODEL) - 1)

\* the case with text before the start marker, text after the end marker and
\* a second end marker further on
C2_Witness ==
    /\ Reported
    /\ C2_Case
    /\ LET c == Selected(CLARIFIED_IDEA)
           s == FirstOcc(CLARIFIED_IDEA, c, 1)
           e == FirstOcc(BUSINESS_MODEL, c, s)
       IN  /\ s > 1
           /\ OccursFrom(BUSINESS_MODEL, c, e + 1)
           /\ SectionBody("### Clarified Business Idea") # c

----------------------------------------------------------------------------
(* C3 *)

C3_Case ==
    /\ AssistantWith(STRATEGIC_FEEDBACK) # {}
    /\ ~Contains(TERMINATE, Selected(STRATEGIC_FEEDBACK))

\* C3 (as claimed): when the most recent assistant-role message containing
\* "STRATEGIC FEEDBACK:" does not contain "TERMINATE", the feedback section
\* is the text of that message from the first "STRATEGIC FEEDBACK:" to the
\* end of the message.
C3_FeedbackIsRemainder ==
    (Reported /\ C3_Case) =>
        LET c == Selected(STRATEGIC_FEEDBACK)
        IN  /\ HasSection("### Strategic Feedback")
            /\ SectionBody("### Strategic Feedback")
                 = SubSeq(c, FirstOcc(STRATEGIC_FEEDBACK, c, 1), Len(c))

\* C3 (amended): in that case the feedback section is the entire content of
\* that message, the text before the first "STRATEGIC FEEDBACK:" included,
\* and the report is produced.
C3_FeedbackIsWholeMessage ==
    (Reported /\ C3_Case) =>
        /\ report # NoReport
        /\ HasSection("### Strategic Feedback")
        /\ SectionBody("### Strategic Feedback") = Selected(STRATEGIC_FEEDBACK)

\* the case with text in front of the marker
C3_Witness ==
    /\ Reported
    /\ C3_Case
    /\ FirstOcc(STRATEGIC_FEEDBACK, Selected(STRATEGIC_FEEDBACK), 1) > 1
    /\ SectionBody("### Strategic Feedback") = Selected(STRATEGIC_FEEDBACK)

----------------------------------------------------------------------------
(* C4 *)

C4_Case(sec) ==
    AssistantWith(sec.primary) = {} /\ AssistantWith(sec.fallback) # {}

\* C4: for each section with a primary and a fallback marker, when no
\* assistant-role message contains the primary marker and some contains the
\* fallback marker, the section is the full content of the most recent
\* assistant-role message containing the fallback marker.
C4_FallbackContentUsed ==
    Reported =>
        \A sec \in PairedSections :
            C4_Case(sec) =>
                /\ HasSection(sec.head)
                /\ SectionBody(sec.head) = Selected(sec.fallback)

\* a section in its fallback case whose fallback message is not the last
\* message of the transcript
C4_Witness ==
    /\ Reported
    /\ Len(transcript) = 2
    /\ \E sec \in PairedSections :
         /\ C4_Case(sec)
         /\ AssistantWith(sec.fallback) = {1}
         /\ transcript[1].content # transcript[2].content
         /\ SectionBody(sec.head) = transcript[1].content

----------------------------------------------------------------------------
(* C9 *)

\* the marker lookups the report makes: start marker, optional end marker
Lookups ==
    { <<MARKET_RESEARCHER, NoPattern>>, <<MARKET_SIZE, NoPattern>>,
      <<COMPETITOR_SCOUT, NoPattern>>, <<DIRECT_COMPETITORS, NoPattern>>,
      <<CLARIFIED_IDEA, BUSINESS_MODEL>>,
      <<SWOT_ANALYSIS, NoPattern>>, <<STRENGTHS, NoPattern>>,
      <<STRATEGIC_FEEDBACK, TERMINATE>> }

\* t is a contiguous part of c
PartOf(t, c) ==
    \E i \in 1..(Len(c) + 1) : \E j \in (i - 1)..Len(c) : t = SubSeq(c, i, j)

\* C9: a single marker lookup answers from the most recent assistant-role
\* message containing the start marker: nothing is found when there is no
\* such message (other roles do not count); otherwise the answer is a part of
\* that message, and it is the whole of it when the lookup has no end marker
\* or the end marker is missing from that message, whatever older messages
\* hold.
C9_MostRecentAssistantWins ==
    Reported =>
        \A l \in Lookups :
            LET r == find_agent_response(transcript, l[1], l[2])
            IN  IF AssistantWith(l[1]) = {}
                THEN r = None
                ELSE /\ r.some
                     /\ PartOf(r.text, Selected(l[1]))
                     /\ Contains(l[1], r.text)
                     /\ (l[2] = NoPattern \/ ~Contains(l[2], Selected(l[1])))
                            => r.text = Selected(l[1])

\* an older assistant message holds both markers, the most recent one only
\* the start marker, and the whole of the most recent one is the answer
C9_Witness ==
    /\ Reported
    /\ Len(transcript) = 2
    /\ transcript[1].role = "assistant"
    /\ Contains(CLARIFIED_IDEA, transcript[1].content)
    /\ Contains(BUSINESS_MODEL, transcript[1].content)
    /\ transcript[2].role = "assistant"
    /\ Contains(CLARIFIED_IDEA, transcript[2].content)
    /\ ~Contains(BUSINESS_MODEL, transcript[2].content)
    /\ find_agent_response(transcript, CLARIFIED_IDEA, BUSINESS_MODEL).text
         = transcript[2].content

\* a lookup that passes over a more recent message of another role holding
\* the marker
C9_WitnessRole ==
    /\ Reported
    /\ Len(transcript) = 2
    /\ transcript[2].role = "user"
    /\ Contains(STRENGTHS, transcript[2].content)
    /\ transcript[1].role = "assistant"
    /\ Contains(STRENGTHS, transcript[1].content)
    /\ transcript[1].content # transcript[2].content

----------------------------------------------------------------------------
(* C10 *)

\* C10: for a section with a primary and a fallback marker, when some
\* assistant-role message contains the primary marker the section is the
\* content of the most recent such message, even when a more recent
\* assistant-role message contains only the fallback marker.
C10_PrimaryOverridesRecency ==
    Reported =>
        \A sec \in PairedSections :
            AssistantWith(sec.primary) # {} =>
                /\ HasSection(sec.head)
                /\ SectionBody(sec.head) = Selected(sec.primary)

\* the primary marker in the older message, only the fallback marker in the
\* more recent one
C10_Witness ==
    /\ Reported
    /\ \E sec \in PairedSections :
         /\ AssistantWith(sec.primary) = {1}
         /\ AssistantWith(sec.fallback) = {2}
         /\ SectionBody(sec.head) = transcript[1].content
         /\ transcript[1].content # transcript[2].content

----------------------------------------------------------------------------
(* C5 *)

\* what the engine or the script put into the transcript
OriginalMessages ==
    {initial_message(idea)} \cup [role : Roles, content : ChatTexts]

\* C5: while the search provider raises on every call, whatever calls of
\* generate_reply have been made: the search gave no results, no exception
\* left web_search (and so none left generate_reply because of the search),
\* the call changed no message, every message of the transcript is as it was
\* appended, and the parent's reply generation ran in every call.
C5_ProviderDownIsHarmless ==
    provider = "down" =>
        /\ parentCalls = replyCalls
        /\ \A i \in DOMAIN transcript : transcript[i] \in OriginalMessages
        /\ lastCall.made =>
             /\ lastCall.results = <<>>
             /\ ~lastCall.searchRaised
             /\ lastCall.after = lastCall.before
             /\ lastCall.parentCalled = 1
             /\ lastCall.given => lastCall.parentSaw = lastCall.before

\* two calls were made with the provider down, the last one by a research
\* agent on a non-empty message list, and the conversation went on
C5_Witness ==
    /\ provider = "down"
    /\ replyCalls = 2
    /\ lastCall.made
    /\ lastCall.given
    /\ Len(lastCall.before) > 0
    /\ IsResearcher(lastCall.name)
    /\ pc = "chat"

----------------------------------------------------------------------------
(* C6 *)

\* the first min(3, n) snippets joined by newlines
FirstThreeJoined(results) ==
    IF Len(results) = 1 THEN results[1]
    ELSE IF Len(results) = 2 THEN results[1] \o <<"\n">> \o results[2]
    ELSE results[1] \o <<"\n">> \o results[2] \o <<"\n">> \o results[3]

\* C6: for a call of generate_reply with a non-empty message list, the last
\* message's content is the old content followed by the banner and the first
\* min(3, n) snippets joined by newlines when the agent is MarketResearcher
\* or CompetitorScout and the search returned n >= 1 snippets, and is
\* unchanged otherwise; its role and every other message are unchanged; and
\* the parent's reply generation is invoked exactly once, on the messages as
\* modified.
C6_OnlyLastMessageAugmented ==
    /\ parentCalls = replyCalls
    /\ (lastCall.made /\ lastCall.given /\ Len(lastCall.before) > 0) =>
        LET before == lastCall.before
            after  == lastCall.after
            n      == Len(before)
        IN  /\ Len(after) = n
            /\ \A i \in 1..(n - 1) : after[i] = before[i]
            /\ after[n].role = before[n].role
            /\ IF lastCall.name \in {"MarketResearcher", "CompetitorScout"}
                  /\ Len(lastCall.results) >= 1
               THEN after[n].content
                      = before[n].content \o WEB_SEARCH_BANNER
                          \o FirstThreeJoined(lastCall.results)
               ELSE after[n].content = before[n].content
            /\ lastCall.name \notin {"MarketResearcher", "CompetitorScout"}
                  => lastCall.results = <<>>
            /\ lastCall.parentCalled = 1
            /\ lastCall.parentSaw = after

\* CompetitorScout got five snippets and the last of two messages was
\* extended
C6_Witness ==
    /\ lastCall.made
    /\ lastCall.given
    /\ lastCall.name = "CompetitorScout"
    /\ Len(lastCall.results) = 5
    /\ Len(lastCall.before) = 2
    /\ lastCall.after # lastCall.before
    /\ lastCall.parentCalled = 1

----------------------------------------------------------------------------
(* C7 *)

\* s is the beginning of t, and t is longer
ProperPrefix(s, t) == Len(s) < Len(t) /\ SubSeq(t, 1, Len(s)) = s

\* C7 (as claimed): a message already in the transcript never changes and is
\* never removed or moved; the transcript only grows by appending.
C7_AppendOnly ==
    [][ /\ Len(transcript') >= Len(transcript)
        /\ \A i \in DOMAIN transcript : transcript'[i] = transcript[i] ]_vars

\* C7 (amended): no message is removed or moved and no role ever changes; a
\* step either leaves the transcript as it is, or appends one message, or is
\* a generate_reply call by MarketResearcher or CompetitorScout that extends
\* the content of the last message (the old content stays its beginning) and
\* touches no other message; once the conversation is over, report
\* extraction and saving included, the transcript does not change.
C7_AppendOrExtendLast ==
    [][ \/ transcript' = transcript
        \/ /\ pc \in {"validate", "chat"}
           /\ Len(transcript') = Len(transcript) + 1
           /\ SubSeq(transcript', 1, Len(transcript)) = transcript
        \/ /\ pc = "chat"
           /\ replyCalls' = replyCalls + 1
           /\ IsResearcher(lastCall'.name)
           /\ Len(transcript') = Len(transcript)
           /\ Len(transcript) > 0
           /\ \A i \in 1..(Len(transcript) - 1) : transcript'[i] = transcript[i]
           /\ transcript'[Len(transcript)].role = transcript[Len(transcript)].role
           /\ ProperPrefix(transcript[Len(transcript)].content,
                           transcript'[Len(transcript)].content) ]_vars

\* the shim extended a message during the conversation and the report was
\* then extracted from the transcript
C7_Witness ==
    /\ lastCall.made
    /\ lastCall.after # lastCall.before
    /\ report # NoReport
    /\ transcript = lastCall.after
    /\ pc = "done"

----------------------------------------------------------------------------
(* C8 *)

Count(tag) == Cardinality({k \in DOMAIN out : out[k] = tag})

\* C8: in a run with a non-blank idea, when a step fails (agent creation,
\* the conversation, report extraction, writing the file) the error message
\* is printed once, as the last thing printed, no later step has run and the
\* process ends with status 0; the completion message and the saved
\* filename are printed only when validation and saving both finished
\* without an exception; the process never ends with another status.
C8_FailuresCaughtOnce ==
    /\ pc # "done" => exitStatus = -1 /\ failedAt = "none"
    /\ pc = "done" => exitStatus = 0
    /\ Count("traceback") = 0
    /\ failedAt # "none" =>
         /\ Strip(idea) # <<>>
         /\ pc = "done"
         /\ Count("error") = 1
         /\ out[Len(out)] = "error"
         /\ Count("completed") = 0
         /\ Count("report-saved") = 0
         /\ ~saved
         /\ failedAt = "create" => transcript = <<>>
         /\ failedAt \in {"create", "chat"} => report = NoReport
    /\ failedAt = "none" => Count("error") = 0
    /\ (Count("completed") = 1 \/ Count("report-saved") = 1) =>
         /\ failedAt = "none"
         /\ report # NoReport
         /\ saved
         /\ pc = "done"

\* the report was extracted and writing the file failed
C8_Witness ==
    /\ failedAt = "save"
    /\ report # NoReport
    /\ pc = "done"
    /\ exitStatus = 0
    /\ out[Len(out)] = "error"

====
